---- MODULE Spec2Model ----
(***************************************************************************)
(* filebeat-wrapper.py: a Mesos container logger.  One run reads three     *)
(* environment variables, provisions two index templates in the sandbox,   *)
(* resolves where its standard input goes (filebeat, a sidecar file or     *)
(* standard output) and, when shipping, renders filebeat's configuration,  *)
(* spawns filebeat and supervises it.                                      *)
(*                                                                         *)
(* Python values are tagged records, so that None, strings, lists and      *)
(* dicts stay apart (in TLA+ the empty dict and the empty list would be    *)
(* the same value).  A Python expression that may raise evaluates to       *)
(* Ok(value) or Raise(exception name).                                     *)
(***************************************************************************)
EXTENDS Integers, Sequences, FiniteSets, TLC

\* ------------------------------------------------------------------ bounds
MaxVars == 2      \* entries in command.environment.variables
MaxLines == 2     \* lines read from standard input in one run
MaxRuns == 2      \* consecutive runs in the same sandbox

\* ----------------------------------------------------------- Python values
PyNone == [t |-> "None"]
Str(s) == [t |-> "str", v |-> s]
Num(s) == [t |-> "num", v |-> s]
List(s) == [t |-> "list", v |-> s]
Obj(r) == [t |-> "dict", v |-> r]
EmptyDict == Obj(<<>>)

Ok(x) == [ok |-> TRUE, val |-> x]
Raise(e) == [ok |-> FALSE, exc |-> e]

\* bool(x) of an os.environ.get result: None and "" are false.
Truthy(x) == x.t = "str" /\ x.v # ""

\* "{}".format(x): str(x).
Format(x) == IF x.t = "None" THEN "None" ELSE x.v

\* x[k] for a string key k.
GetItem(x, k) ==
  IF x.t = "dict"
    THEN IF k \in DOMAIN x.v THEN Ok(x.v[k]) ELSE Raise("KeyError")
    ELSE Raise("TypeError")

\* x[k1][k2]...[kn], left to right, stopping at the first exception.
RECURSIVE GetPath(_, _)
GetPath(x, keys) ==
  IF keys = <<>> THEN Ok(x)
  ELSE LET r == GetItem(x, Head(keys))
       IN  IF r.ok THEN GetPath(r.val, Tail(keys)) ELSE r

\* The elements "for x in v" visits: a list's items, a dict's keys, a
\* string's characters (one stands for all of them: each is a str).
Iterate(v) ==
  CASE v.t = "list" -> Ok(v.v)
    [] v.t = "dict" -> Ok(IF DOMAIN v.v = {} THEN <<>>
                          ELSE <<Str(CHOOSE k \in DOMAIN v.v : TRUE)>>)
    [] v.t = "str" -> Ok(IF v.v = "" THEN <<>> ELSE <<Str(v.v)>>)
    [] OTHER -> Raise("TypeError")

\* str.lower() on the stream labels of the model.
lower(s) ==
  CASE s = "STDOUT" -> "stdout"
    [] s = "StdErr" -> "stderr"
    [] OTHER -> s

\* json.loads(os.environ.get("MESOS_EXECUTORINFO_JSON")): the variable is
\* unset (None), holds text that is no JSON document, or holds a document.
BadText == [t |-> "text", valid |-> FALSE]
Text(doc) == [t |-> "text", valid |-> TRUE, doc |-> doc]
json_loads(raw) ==
  CASE raw.t = "None" -> Raise("TypeError")
    [] raw.t = "text" /\ ~raw.valid -> Raise("ValueError")
    [] OTHER -> Ok(raw.doc)

\* ------------------------------------------------------------ source texts
HOST_KEY == "FILEBEAT_OUTPUT_HOST"
template_json == "{mappings: keyword, template: filebeat-*}"
template_json_x2 == "{mappings: not_analyzed string, template: filebeat-*}"

\* template.format(image, framework_id, directory, stream, host).
template(image, framework_id, directory, stream, host) ==
  "image: " \o Format(image) \o "; framework_id: " \o Format(framework_id)
  \o "; mesos_log_sandbox_directory: " \o Format(directory)
  \o "; mesos_log_stream: " \o Format(stream)
  \o "; hosts: [" \o Format(host) \o "]"

\* ------------------------------------------------------------- file system
\* A file system maps the paths of its regular files to their text.
isfile(files, path) == path \in DOMAIN files

OpenWrite(files, path, text) ==
  [p \in DOMAIN files \cup {path} |-> IF p = path THEN text ELSE files[p]]

\* Mutant: the sidecar file opened with "w" instead of "a".
OpenAppendTruncating(files, path, text) == OpenWrite(files, path, text)

OpenAppend(files, path, text) ==
  [p \in DOMAIN files \cup {path} |->
     IF p = path
       THEN (IF path \in DOMAIN files THEN files[path] ELSE "") \o text
       ELSE files[p]]

\* ---------------------------------------------------- output-host lookup
\* [x["value"] for x in xs if x["name"] == "FILEBEAT_OUTPUT_HOST"]: the
\* whole list is built, so an exception of any element aborts it.
RECURSIVE Comprehension(_)
Comprehension(xs) ==
  IF xs = <<>> THEN Ok(<<>>)
  ELSE LET x == Head(xs)
           n == GetItem(x, "name")
       IN  IF ~n.ok THEN n
           ELSE IF n.val = Str(HOST_KEY)
             THEN LET val == GetItem(x, "value")
                      rest == Comprehension(Tail(xs))
                  IN  IF ~val.ok THEN val
                      ELSE IF ~rest.ok THEN rest
                      ELSE Ok(<<val.val>> \o rest.val)
             ELSE Comprehension(Tail(xs))

\* Lines 220-223: the value of the first FILEBEAT_OUTPUT_HOST entry, or the
\* exception the expression raises.
LookupOutputHost(info) ==
  LET vars == GetPath(info, <<"command", "environment", "variables">>)
      xs == IF vars.ok THEN Iterate(vars.val) ELSE vars
      hits == IF xs.ok THEN Comprehension(xs.val) ELSE xs
  IN  IF ~hits.ok THEN hits
      ELSE IF hits.val = <<>> THEN Raise("IndexError")
      ELSE Ok(hits.val[1])

\* Lines 242-249: a field read with "except KeyError" falling back to "".
OptionalField(info, keys) ==
  LET r == GetPath(info, keys)
  IN  IF r.ok THEN r
      ELSE IF r.exc = "KeyError" THEN Ok(Str(""))
      ELSE r

\* --------------------------------------------------------------- inputs
HostEntry(h) == Obj([name |-> Str(HOST_KEY), value |-> Str(h)])
OtherEntry == Obj([name |-> Str("PATH"), value |-> Str("/bin")])
NoNameEntry == Obj([value |-> Str("/bin")])
NoValueEntry == Obj([name |-> Str(HOST_KEY)])
TextEntry == Str("FILEBEAT_OUTPUT_HOST=es:9200")
Entries == {HostEntry("es:9200"), OtherEntry, NoNameEntry, NoValueEntry}
VarLists == UNION {[1..n -> Entries] : n \in 0..MaxVars}

Command(vars) == Obj([environment |-> Obj([variables |-> vars])])
Container(image) == Obj([docker |-> Obj([image |-> image])])
FullInfo(vars) ==
  Obj([command |-> Command(vars),
       container |-> Container(Str("nginx")),
       framework_id |-> Obj([value |-> Str("fw-1")])])
ShipVars == List(<<HostEntry("es:9200")>>)

\* Executor descriptors: every variable list up to MaxVars in a complete
\* descriptor, then descriptors with a level missing or of another shape.
Documents ==
  {FullInfo(List(vl)) : vl \in VarLists}
    \cup {FullInfo(List(vl)) :
            vl \in {<<HostEntry("es:9200"), HostEntry("es2:9200")>>,
                    <<HostEntry("es2:9200"), HostEntry("es:9200")>>,
                    <<TextEntry>>,
                    <<HostEntry("es:9200"), TextEntry>>}}
    \cup {FullInfo(v) : v \in {PyNone, EmptyDict, Str(""), Str("x")}}
    \cup {Obj([command |-> Command(ShipVars)]),
          Obj([command |-> Command(ShipVars), container |-> PyNone]),
          Obj([command |-> Command(ShipVars), container |-> Container(PyNone),
               framework_id |-> EmptyDict]),
          Obj([command |-> Command(ShipVars),
               framework_id |-> Str("fw-1")])}
    \cup {EmptyDict,
          Obj([command |-> EmptyDict]),
          Obj([command |-> Str("x")]),
          Obj([command |-> Obj([environment |-> PyNone])]),
          Obj([command |-> Obj([environment |-> EmptyDict])]),
          Obj([container |-> Container(Str("nginx"))])}
    \cup {PyNone, List(<<>>), Num("7"), Str("x")}

ExecutorInfoValues == {PyNone, BadText} \cup {Text(d) : d \in Documents}
SandboxValues == {PyNone, Str(""), Str("/s")}
StreamValues == {PyNone, Str(""), Str("STDOUT"), Str("StdErr")}
\* Standard input: a prefix of these lines, all different.
StdinLine(i) == "line " \o ToString(i) \o "\n"
ChildReturnCodes == {0, 1, 255, -15}

\* What the sandbox may hold before the first run.
InitialFiles ==
  {<<>>,
   [p \in {"/s/filebeat.template.json"} |-> "{user template}"],
   [p \in {"/s/filebeat.template.json", "/s/filebeat.template-es2x.json",
           "/s/filebeat-STDOUT.yml", "/s/stdout"} |->
      CASE p = "/s/filebeat-STDOUT.yml" -> "image: old"
        [] p = "/s/stdout" -> "old\n"
        [] OTHER -> "{user template}"]}

\* ----------------------------------------------------------------- state
VARIABLES
  environ,                      \* os.environ: the three variables read
  files,                        \* the file system
  stdout,                       \* text written to standard output
  pc,                           \* where the run is
  MESOS_EXECUTOR_INFO,
  MESOS_LOG_SANDBOX_DIRECTORY,
  MESOS_LOG_STREAM,
  FILEBEAT_OUTPUT_HOST,
  IMAGE,
  FRAMEWORK_ID,
  FILEBEAT_CONFIG_PATH,
  proc,                         \* the Popen object: none, or child state
  handler_installed,            \* signal.signal(SIGTERM, handler) has run
  sigterm_pending,              \* SIGTERM delivered, handler not yet run
  exit_status,                  \* <<>> while running, <<n>> once exited
  runs,                         \* runs started so far
  mode,                         \* how the output resolution ended
  stdin_read,                   \* history: lines read from standard input
  files0,                       \* history: the file system at run start
  stdout0,                      \* history: standard output at run start
  started,                      \* history: output activities begun
  exit_arg                      \* history: the argument given to sys.exit

locals ==
  <<MESOS_EXECUTOR_INFO, MESOS_LOG_SANDBOX_DIRECTORY, MESOS_LOG_STREAM,
    FILEBEAT_OUTPUT_HOST, IMAGE, FRAMEWORK_ID, FILEBEAT_CONFIG_PATH>>
supervision == <<proc, handler_installed, sigterm_pending>>
history == <<stdin_read, files0, stdout0, started, exit_arg>>
vars ==
  <<environ, files, stdout, pc, locals, supervision, exit_status, runs, mode,
    history>>

NoProc == [state |-> "none", killed |-> FALSE, status |-> <<>>,
           returncode |-> <<>>]
Terminal == {"done", "crashed", "killed"}

\* The local variables before main() has assigned them.
Unassigned ==
  /\ MESOS_EXECUTOR_INFO = EmptyDict
  /\ MESOS_LOG_SANDBOX_DIRECTORY = PyNone
  /\ MESOS_LOG_STREAM = PyNone
  /\ FILEBEAT_OUTPUT_HOST = Str("")
  /\ IMAGE = Str("")
  /\ FRAMEWORK_ID = Str("")
  /\ FILEBEAT_CONFIG_PATH = ""

Init ==
  /\ environ \in [MESOS_EXECUTORINFO_JSON : ExecutorInfoValues,
                  MESOS_LOG_SANDBOX_DIRECTORY : SandboxValues,
                  MESOS_LOG_STREAM : StreamValues]
  /\ files \in InitialFiles
  /\ stdout = ""
  /\ pc = "main"
  /\ Unassigned
  /\ proc = NoProc
  /\ handler_installed = FALSE
  /\ sigterm_pending = FALSE
  /\ exit_status = <<>>
  /\ runs = 1
  /\ mode = "unresolved"
  /\ stdin_read = <<>>
  /\ files0 = files
  /\ stdout0 = stdout
  /\ started = {}
  /\ exit_arg = <<>>

\* An uncaught exception: traceback, exit status 1.
Uncaught ==
  /\ pc' = "crashed"
  /\ exit_status' = <<1>>

\* Lines 191-200: decode the descriptor, read the two other variables.
ExtractContext ==
  /\ pc = "main"
  /\ LET r == json_loads(environ.MESOS_EXECUTORINFO_JSON)
     IN  MESOS_EXECUTOR_INFO' = IF r.ok THEN r.val ELSE EmptyDict
  /\ MESOS_LOG_SANDBOX_DIRECTORY' = environ.MESOS_LOG_SANDBOX_DIRECTORY
  /\ MESOS_LOG_STREAM' = environ.MESOS_LOG_STREAM
  /\ pc' = "template"
  /\ UNCHANGED <<environ, files, stdout, FILEBEAT_OUTPUT_HOST, IMAGE,
                 FRAMEWORK_ID, FILEBEAT_CONFIG_PATH, supervision,
                 exit_status, runs, mode, history>>

\* Mutant: the os.path.isfile test left out.
ShouldWriteTemplateAlways(fs, path, directory) == Truthy(directory)

\* Lines 207, 211: "not os.path.isfile(path) and MESOS_LOG_SANDBOX_DIRECTORY".
ShouldWriteTemplate(fs, path, directory) ==
  ~isfile(fs, path) /\ Truthy(directory)

\* One template: write the document when it should be written (open may
\* raise, which nothing catches), else leave the file system alone.
ProvisionFile(name, text, next) ==
  LET path == Format(MESOS_LOG_SANDBOX_DIRECTORY) \o "/" \o name
  IN  IF ShouldWriteTemplate(files, path, MESOS_LOG_SANDBOX_DIRECTORY)
        THEN \/ /\ files' = OpenWrite(files, path, text)
                /\ pc' = next
                /\ UNCHANGED exit_status
             \/ /\ Uncaught
                /\ UNCHANGED files
        ELSE /\ pc' = next
             /\ UNCHANGED <<files, exit_status>>

\* Lines 206-209.
ProvisionTemplate ==
  /\ pc = "template"
  /\ ProvisionFile("filebeat.template.json", template_json, "template_x2")
  /\ UNCHANGED <<environ, stdout, locals, supervision, runs, mode, history>>

\* Lines 210-213.
ProvisionTemplateX2 ==
  /\ pc = "template_x2"
  /\ ProvisionFile("filebeat.template-es2x.json", template_json_x2, "resolve")
  /\ UNCHANGED <<environ, stdout, locals, supervision, runs, mode, history>>

\* Lines 218-229, 234: look the output host up; KeyError and IndexError
\* fall back to the sandbox file or to standard output, any other
\* exception is uncaught.
ResolveOutput ==
  /\ pc = "resolve"
  /\ LET r == LookupOutputHost(MESOS_EXECUTOR_INFO)
     IN  CASE r.ok ->
                /\ FILEBEAT_OUTPUT_HOST' = r.val
                /\ mode' = "Ship"
                /\ pc' = "fields"
                /\ UNCHANGED exit_status
           [] ~r.ok /\ r.exc \in {"KeyError", "IndexError"} ->
                /\ mode' = IF Truthy(MESOS_LOG_SANDBOX_DIRECTORY)
                                /\ Truthy(MESOS_LOG_STREAM)
                             THEN "SidecarFile" ELSE "Passthrough"
                /\ pc' = "copy"
                /\ UNCHANGED <<FILEBEAT_OUTPUT_HOST, exit_status>>
           [] OTHER ->
                /\ Uncaught
                /\ mode' = "raised"
                /\ UNCHANGED FILEBEAT_OUTPUT_HOST
  /\ UNCHANGED <<environ, files, stdout, MESOS_EXECUTOR_INFO,
                 MESOS_LOG_SANDBOX_DIRECTORY, MESOS_LOG_STREAM, IMAGE,
                 FRAMEWORK_ID, FILEBEAT_CONFIG_PATH, supervision, runs,
                 history>>

\* Line 231: the sidecar file, named by the lower-cased stream label.
SidecarPath(directory, stream) ==
  Format(directory) \o "/" \o lower(Format(stream))

\* Mutant: no "return None" after the copy loop, so control falls through
\* to the shipping code.
AfterCopyLoopFallsThrough == "fields"

\* Line 237: main() returns None when input is exhausted.
AfterCopyLoop == "return_none"

\* Lines 229-232: one iteration of the sidecar loop appends the line read
\* to the sidecar file, opened anew in append mode (open may raise).
SidecarCopy ==
  /\ pc = "copy"
  /\ mode = "SidecarFile"
  /\ Len(stdin_read) < MaxLines
  /\ LET line == StdinLine(Len(stdin_read) + 1)
     IN
       /\ stdin_read' = Append(stdin_read, line)
       /\ \/ /\ files' = OpenAppend(files,
                           SidecarPath(MESOS_LOG_SANDBOX_DIRECTORY,
                                       MESOS_LOG_STREAM), line)
             /\ UNCHANGED <<pc, exit_status>>
          \/ /\ Uncaught
             /\ UNCHANGED files
  /\ started' = started \cup {"SidecarFile"}
  /\ UNCHANGED <<environ, stdout, locals, supervision, runs, mode, files0,
                 stdout0, exit_arg>>

\* Lines 234-236: one iteration of the passthrough loop.
PassthroughCopy ==
  /\ pc = "copy"
  /\ mode = "Passthrough"
  /\ Len(stdin_read) < MaxLines
  /\ LET line == StdinLine(Len(stdin_read) + 1)
     IN  /\ stdin_read' = Append(stdin_read, line)
         /\ stdout' = stdout \o line
  /\ started' = started \cup {"Passthrough"}
  /\ UNCHANGED <<environ, files, pc, locals, supervision, exit_status, runs,
                 mode, files0, stdout0, exit_arg>>

\* Lines 230, 235, 237: fileinput reports end of input; main() returns.
EndOfInput ==
  /\ pc = "copy"
  /\ pc' = AfterCopyLoop
  /\ started' = started \cup {mode}
  /\ UNCHANGED <<environ, files, stdout, locals, supervision, exit_status,
                 runs, mode, stdin_read, files0, stdout0, exit_arg>>

\* Lines 265-267: proc is None, sys.exit(0).
ExitZero ==
  /\ pc = "return_none"
  /\ pc' = "done"
  /\ exit_arg' = <<0>>
  /\ exit_status' = <<0>>
  /\ UNCHANGED <<environ, files, stdout, locals, supervision, runs, mode,
                 stdin_read, files0, stdout0, started>>

\* Lines 240-249: image and framework id, "" when a key is missing; any
\* other exception is uncaught.
LookupFields ==
  /\ pc = "fields"
  /\ LET image == OptionalField(MESOS_EXECUTOR_INFO,
                                <<"container", "docker", "image">>)
         framework == OptionalField(MESOS_EXECUTOR_INFO,
                                    <<"framework_id", "value">>)
     IN  IF image.ok /\ framework.ok
           THEN /\ IMAGE' = image.val
                /\ FRAMEWORK_ID' = framework.val
                /\ pc' = "render"
                /\ UNCHANGED exit_status
           ELSE /\ Uncaught
                /\ IMAGE' = IF image.ok THEN image.val ELSE IMAGE
                /\ UNCHANGED FRAMEWORK_ID
  /\ UNCHANGED <<environ, files, stdout, MESOS_EXECUTOR_INFO,
                 MESOS_LOG_SANDBOX_DIRECTORY, MESOS_LOG_STREAM,
                 FILEBEAT_OUTPUT_HOST, FILEBEAT_CONFIG_PATH, supervision,
                 runs, mode, history>>

\* Mutant: the configuration named like the sidecar file, lower-cased.
ConfigPathLowered(directory, stream) ==
  Format(directory) \o "/filebeat-" \o lower(Format(stream)) \o ".yml"

\* Lines 250-251.
ConfigPath(directory, stream) ==
  Format(directory) \o "/filebeat-" \o Format(stream) \o ".yml"

\* Lines 250-260: render the configuration and write it, truncating what
\* the file held (open may raise, which nothing catches).
WriteConfig ==
  /\ pc = "render"
  /\ FILEBEAT_CONFIG_PATH' =
       ConfigPath(MESOS_LOG_SANDBOX_DIRECTORY, MESOS_LOG_STREAM)
  /\ started' = started \cup {"RenderedConfig"}
  /\ \/ /\ files' = OpenWrite(files, FILEBEAT_CONFIG_PATH',
                      template(IMAGE, FRAMEWORK_ID,
                               MESOS_LOG_SANDBOX_DIRECTORY,
                               MESOS_LOG_STREAM, FILEBEAT_OUTPUT_HOST))
        /\ pc' = "popen"
        /\ UNCHANGED exit_status
     \/ /\ Uncaught
        /\ UNCHANGED files
  /\ UNCHANGED <<environ, stdout, MESOS_EXECUTOR_INFO,
                 MESOS_LOG_SANDBOX_DIRECTORY, MESOS_LOG_STREAM,
                 FILEBEAT_OUTPUT_HOST, IMAGE, FRAMEWORK_ID, supervision,
                 runs, mode, stdin_read, files0, stdout0, exit_arg>>

\* Line 262: spawn filebeat.  A None among the arguments is a TypeError, a
\* missing binary an OSError; neither is caught.
Popen ==
  /\ pc = "popen"
  /\ \/ /\ MESOS_LOG_SANDBOX_DIRECTORY.t = "str"
        /\ proc' = [NoProc EXCEPT !.state = "running"]
        /\ pc' = "install"
        /\ UNCHANGED exit_status
     \/ /\ Uncaught
        /\ UNCHANGED proc
  /\ UNCHANGED <<environ, files, stdout, locals, handler_installed,
                 sigterm_pending, runs, mode, history>>

\* Lines 268-270: signal.signal(signal.SIGTERM, handler).
InstallHandler ==
  /\ pc = "install"
  /\ handler_installed' = TRUE
  /\ pc' = "wait"
  /\ UNCHANGED <<environ, files, stdout, locals, proc, sigterm_pending,
                 exit_status, runs, mode, history>>

\* Line 271, proc.wait(): returns once the child has terminated, reaping
\* it; the return code is the exit status, or -N for a death by signal N.
Wait ==
  /\ pc = "wait"
  /\ proc.state = "zombie"
  /\ proc' = [proc EXCEPT !.state = "reaped", !.returncode = proc.status]
  /\ pc' = "sys_exit"
  /\ UNCHANGED <<environ, files, stdout, locals, handler_installed,
                 sigterm_pending, exit_status, runs, mode, history>>

\* Mutant: any failure of the child reported as 1.
ExitStatusOfClamped(n) == IF n = 0 THEN 0 ELSE 1

\* Line 271, sys.exit(n): the status the parent of this process sees is
\* the low eight bits of n.
ExitStatusOf(n) == n % 256

\* Line 271, sys.exit(proc.wait()).
SysExit ==
  /\ pc = "sys_exit"
  /\ exit_arg' = proc.returncode
  /\ exit_status' = <<ExitStatusOf(proc.returncode[1])>>
  /\ pc' = "done"
  /\ UNCHANGED <<environ, files, stdout, locals, supervision, runs, mode,
                 stdin_read, files0, stdout0, started>>

SIGKILL == 9

\* proc.kill(): SIGKILL to the child, unless wait() has already reaped it.
\* A child that has terminated is past being killed.
Kill(p) ==
  IF p.returncode = <<>> /\ p.state = "running"
    THEN [p EXCEPT !.killed = TRUE]
    ELSE p

\* Mutant: the handler leaves the child alone.
handlerIgnores ==
  /\ handler_installed
  /\ sigterm_pending
  /\ pc \in {"wait", "sys_exit"}
  /\ sigterm_pending' = FALSE
  /\ UNCHANGED <<environ, files, stdout, pc, locals, proc,
                 handler_installed, exit_status, runs, mode, history>>

\* Mutant: the handler kills the child and exits the supervisor itself.
handlerExits ==
  /\ handler_installed
  /\ sigterm_pending
  /\ pc \in {"wait", "sys_exit"}
  /\ sigterm_pending' = FALSE
  /\ proc' = Kill(proc)
  /\ pc' = "done"
  /\ exit_arg' = <<0>>
  /\ exit_status' = <<0>>
  /\ UNCHANGED <<environ, files, stdout, locals, handler_installed, runs,
                 mode, stdin_read, files0, stdout0, started>>

\* Lines 268-269: the handler runs in the main thread, interrupting the
\* wait (or the call of sys.exit after it); it kills and returns.
handler ==
  /\ handler_installed
  /\ sigterm_pending
  /\ pc \in {"wait", "sys_exit"}
  /\ sigterm_pending' = FALSE
  /\ proc' = Kill(proc)
  /\ UNCHANGED <<environ, files, stdout, pc, locals, handler_installed,
                 exit_status, runs, mode, history>>

\* The orchestrator sends SIGTERM to the supervisor.  With the handler
\* installed (line 270) it is left pending for the handler; before that the
\* default disposition terminates the supervisor.
SIGTERM ==
  /\ pc \notin Terminal
  /\ IF handler_installed
       THEN /\ sigterm_pending' = TRUE
            /\ UNCHANGED pc
       ELSE /\ pc' = "killed"
            /\ UNCHANGED sigterm_pending
  /\ UNCHANGED <<environ, files, stdout, locals, proc, handler_installed,
                 exit_status, runs, mode, history>>

\* filebeat terminates by itself (end of input, an error) or by a signal
\* of somebody else.
ChildExits ==
  /\ proc.state = "running"
  /\ ~proc.killed
  /\ \E n \in ChildReturnCodes :
       proc' = [proc EXCEPT !.state = "zombie", !.status = <<n>>]
  /\ UNCHANGED <<environ, files, stdout, pc, locals, handler_installed,
                 sigterm_pending, exit_status, runs, mode, history>>

\* The SIGKILL of proc.kill() terminates filebeat.
ChildKilled ==
  /\ proc.state = "running"
  /\ proc.killed
  /\ proc' = [proc EXCEPT !.state = "zombie", !.status = <<-SIGKILL>>]
  /\ UNCHANGED <<environ, files, stdout, pc, locals, handler_installed,
                 sigterm_pending, exit_status, runs, mode, history>>

\* The logger is started again with the same environment, in the sandbox
\* as the run before left it.
Restart ==
  /\ pc \in Terminal
  /\ runs < MaxRuns
  /\ runs' = runs + 1
  /\ UNCHANGED environ
  /\ pc' = "main"
  /\ MESOS_EXECUTOR_INFO' = EmptyDict
  /\ MESOS_LOG_SANDBOX_DIRECTORY' = PyNone
  /\ MESOS_LOG_STREAM' = PyNone
  /\ FILEBEAT_OUTPUT_HOST' = Str("")
  /\ IMAGE' = Str("")
  /\ FRAMEWORK_ID' = Str("")
  /\ FILEBEAT_CONFIG_PATH' = ""
  /\ proc' = NoProc
  /\ handler_installed' = FALSE
  /\ sigterm_pending' = FALSE
  /\ exit_status' = <<>>
  /\ mode' = "unresolved"
  /\ stdin_read' = <<>>
  /\ files0' = files
  /\ stdout0' = stdout
  /\ started' = {}
  /\ exit_arg' = <<>>
  /\ UNCHANGED <<files, stdout>>

Next ==
  \/ ExtractContext
  \/ ProvisionTemplate
  \/ ProvisionTemplateX2
  \/ ResolveOutput
  \/ SidecarCopy
  \/ PassthroughCopy
  \/ EndOfInput
  \/ ExitZero
  \/ LookupFields
  \/ WriteConfig
  \/ Popen
  \/ InstallHandler
  \/ Wait
  \/ SysExit
  \/ handler
  \/ SIGTERM
  \/ ChildExits
  \/ ChildKilled
  \/ Restart

Spec == Init /\ [][Next]_vars

\* The interpreter runs a pending handler, the kernel delivers SIGKILL,
\* wait() returns once the child has terminated, and sys.exit exits.
FairSpec ==
  /\ Spec
  /\ WF_vars(handler)
  /\ WF_vars(ChildKilled)
  /\ WF_vars(Wait)
  /\ WF_vars(SysExit)

\* ================================================================ claims
RECURSIVE Join(_)
Join(lines) == IF lines = <<>> THEN "" ELSE Head(lines) \o Join(Tail(lines))

SandboxKnown == Truthy(environ.MESOS_LOG_SANDBOX_DIRECTORY)
StreamKnown == Truthy(environ.MESOS_LOG_STREAM)
FallbackMode ==
  IF SandboxKnown /\ StreamKnown THEN "SidecarFile" ELSE "Passthrough"

\* The descriptor's command.environment.variables list, empty when the
\* descriptor has none.
DescriptorVariables ==
  LET raw == environ.MESOS_EXECUTORINFO_JSON
      r == IF raw.t = "text" /\ raw.valid
             THEN GetPath(raw.doc, <<"command", "environment", "variables">>)
             ELSE Raise("absent")
  IN  IF r.ok /\ r.val.t = "list" THEN r.val.v ELSE <<>>

NamesHost(e) ==
  e.t = "dict" /\ "name" \in DOMAIN e.v /\ e.v.name = Str(HOST_KEY)
HostEntries ==
  {i \in 1..Len(DescriptorVariables) : NamesHost(DescriptorVariables[i])}
FirstHostEntry ==
  DescriptorVariables[CHOOSE i \in HostEntries : \A j \in HostEntries : i <= j]

\* A descriptor is well formed when it is a JSON object whose
\* command.environment.variables is a list of objects with name and value.
WellFormed ==
  LET raw == environ.MESOS_EXECUTORINFO_JSON
      r == IF raw.t = "text" /\ raw.valid
             THEN GetPath(raw.doc, <<"command", "environment", "variables">>)
             ELSE Raise("absent")
  IN  /\ r.ok
      /\ r.val.t = "list"
      /\ \A i \in 1..Len(r.val.v) :
           /\ r.val.v[i].t = "dict"
           /\ {"name", "value"} \subseteq DOMAIN r.val.v[i].v

\* C1: once the output is resolved, a descriptor whose variable list has an
\* entry named FILEBEAT_OUTPUT_HOST has resolved to Ship with the value of
\* the first such entry (the case of a first such entry without a value is
\* left open); a descriptor without such an entry, unless its lookup raised
\* (which is C4's case), has resolved to SidecarFile when sandbox directory
\* and stream label are both non-empty, and to Passthrough otherwise.
C1_OutputModeResolution ==
  mode # "unresolved" =>
    IF HostEntries # {}
      THEN "value" \in DOMAIN FirstHostEntry.v =>
             /\ mode = "Ship"
             /\ FILEBEAT_OUTPUT_HOST = FirstHostEntry.v.value
      ELSE mode # "raised" => mode = FallbackMode

SignalledInWait == pc = "wait" /\ sigterm_pending

C4_MalformedDescriptorFallsBack ==
  (mode # "unresolved" /\ ~WellFormed /\ HostEntries = {}) =>
    mode = FallbackMode

TemplateDocuments ==
  [p \in {"/filebeat.template.json", "/filebeat.template-es2x.json"} |->
     IF p = "/filebeat.template.json" THEN template_json
     ELSE template_json_x2]
ProvisioningDone ==
  pc \in {"resolve", "copy", "return_none", "fields", "render", "popen",
          "install", "wait", "sys_exit", "done"}

\* C5: in every run, a template file that existed when the run started
\* keeps its content; once provisioning is over, a template that was absent
\* holds the embedded document if the sandbox directory is known; and with
\* the sandbox directory unknown no template file is ever written.
C5_TemplateProvisioning ==
  \A name \in DOMAIN TemplateDocuments :
    LET path == Format(environ.MESOS_LOG_SANDBOX_DIRECTORY) \o name
    IN  /\ isfile(files0, path) =>
             (isfile(files, path) /\ files[path] = files0[path])
        /\ (SandboxKnown /\ ~isfile(files0, path) /\ ProvisioningDone) =>
             (isfile(files, path) /\ files[path] = TemplateDocuments[name])
        /\ ~SandboxKnown => ~isfile(files, path)

\* A second run has provisioned: the template a user had edited is as the
\* user left it, the one the first run wrote is still the embedded one.
C5_Witness ==
  /\ runs = 2
  /\ pc = "resolve"
  /\ isfile(files, "/s/filebeat.template.json")
  /\ isfile(files, "/s/filebeat.template-es2x.json")
  /\ files["/s/filebeat.template.json"] = "{user template}"
  /\ files["/s/filebeat.template-es2x.json"] = template_json_x2

SidecarTarget ==
  Format(environ.MESOS_LOG_SANDBOX_DIRECTORY) \o "/"
    \o lower(Format(environ.MESOS_LOG_STREAM))

\* The text of a file, empty for a file that does not exist.
Content(fs, path) == IF isfile(fs, path) THEN fs[path] ELSE ""

\* C6: a run that took a copy loop and exited has status 0, never spawned
\* the agent nor wrote a configuration, and its target (the sidecar file,
\* or standard output) holds what it held when the run started followed by
\* the lines read, each once and in order.
C6_CopyLoop ==
  (pc = "done" /\ mode \in {"SidecarFile", "Passthrough"}) =>
    /\ exit_status = <<0>>
    /\ proc.state = "none"
    /\ "RenderedConfig" \notin started
    /\ mode = "SidecarFile" =>
         /\ Content(files, SidecarTarget) =
              Content(files0, SidecarTarget) \o Join(stdin_read)
         /\ isfile(files, SidecarTarget) <=>
              (isfile(files0, SidecarTarget) \/ stdin_read # <<>>)
         /\ stdout = stdout0
    /\ mode = "Passthrough" =>
         /\ stdout = stdout0 \o Join(stdin_read)
         /\ \A p \in DOMAIN files0 : isfile(files, p) /\ files[p] = files0[p]

\* A sidecar run has appended all its lines to a file that existed.
C6_Witness ==
  /\ pc = "done"
  /\ mode = "SidecarFile"
  /\ Len(stdin_read) = MaxLines
  /\ isfile(files0, SidecarTarget)
  /\ files0[SidecarTarget] # ""

ConfigTarget ==
  Format(environ.MESOS_LOG_SANDBOX_DIRECTORY) \o "/filebeat-"
    \o Format(environ.MESOS_LOG_STREAM) \o ".yml"

\* C7: whenever the agent has been spawned, the configuration file of this
\* run (named by the stream label as given) holds the template rendered
\* from this run's image, framework id, sandbox directory, stream label and
\* host; and a run that aborted has spawned no agent.
C7_ConfigBeforeSpawn ==
  /\ proc.state # "none" =>
       /\ started = {"RenderedConfig"}
       /\ isfile(files, ConfigTarget)
       /\ files[ConfigTarget] =
            template(IMAGE, FRAMEWORK_ID, environ.MESOS_LOG_SANDBOX_DIRECTORY,
                     environ.MESOS_LOG_STREAM, FILEBEAT_OUTPUT_HOST)
  /\ pc = "crashed" => proc.state = "none"

\* The agent has just been spawned on a configuration that replaced what
\* the file held before the run.
C7_Witness ==
  /\ pc = "install"
  /\ proc.state = "running"
  /\ isfile(files0, ConfigTarget)
  /\ files[ConfigTarget] # files0[ConfigTarget]

\* C8: at most one output activity has been started in a run, and it is
\* the one the resolution chose.
C8_OneOutputActivity ==
  /\ Cardinality(started) <= 1
  /\ started \subseteq
       (CASE mode = "Ship" -> {"RenderedConfig"}
          [] mode \in {"SidecarFile", "Passthrough"} -> {mode}
          [] OTHER -> {})

\* A sidecar run failed in its loop and started nothing else.
C8_Witness ==
  /\ pc = "crashed"
  /\ mode = "SidecarFile"
  /\ started = {"SidecarFile"}
  /\ stdin_read # <<>>

\* C9: the handler is installed only with the child spawned; a step of the
\* handler changes neither the supervisor's position nor its exit status;
\* and with the handler installed the supervisor terminates only from
\* sys.exit, after wait() has reaped the child.
C9_HandlerOnlyKills ==
  /\ [](handler_installed => proc.state # "none")
  /\ [][(sigterm_pending /\ ~sigterm_pending' /\ runs' = runs)
          => (pc' = pc /\ exit_status' = exit_status)]_vars
  /\ [][(handler_installed /\ pc \notin Terminal /\ pc' \in Terminal)
          => (pc = "sys_exit" /\ pc' = "done" /\ proc.state = "reaped")]_vars

\* The handler has killed the child and the supervisor is still waiting.
C9_Witness ==
  /\ pc = "wait"
  /\ handler_installed
  /\ ~sigterm_pending
  /\ proc.killed
  /\ exit_status = <<>>

\* C10: the supervisor is never terminated by a signal while the agent it
\* spawned is running and has not been sent a kill.
C10_NoOrphanedAgent ==
  ~(pc = "killed" /\ proc.state = "running" /\ ~proc.killed)

====
